---- MODULE Spec2Model ----
\* A model of my_malloc.h: a fixed arena of MAX_MEMORY double-sized slots with
\* two parallel flag arrays, a randomised first-fit placement search with guard
\* slots, a length-less release that walks the used run, pointer tagging and
\* two printing routines.
EXTENDS Integers, Sequences, FiniteSets, TLC

\* ------------------------------------------------------------------ bounds
\* The arena capacity (#define MAX_MEMORY, 450 by default, set at build time).
MAX_MEMORY == 5

\* ------------------------------------------------------- program constants
\* const int cols = 25 of both printing routines.
cols == 25
\* sizeof(double): my_malloc divides the byte count by 8.
SizeofDouble == 8
\* rand() % UCHAR_MAX in double_rand.
UCHAR_MAX == 255

Slots == 0 .. (MAX_MEMORY - 1)
\* time(NULL) at init_my_malloc, the seed of rand().
Seeds == {0, 1}
\* Byte sizes a caller asks for: the first and the last byte count of every slot
\* count 1 .. MAX_MEMORY-1.
Sizes == { SizeofDouble * (k - 1) + d : k \in 1 .. (MAX_MEMORY - 1), d \in {1, 8} }

\* ---------------------------------------------------------------- helpers
\* C's long division, which truncates towards zero.
CDiv(a, b) ==
    IF a >= 0 THEN a \div b ELSE -((-a) \div b)

\* The slot content is an 8-byte word; the model keeps it modulo WordMod.
WordMod == 1000
\* &MEMORY_BUFFER[0] in the same abstract units (slots).
BaseWord == 500

\* The k-th value of rand() after srand(seed): a linear congruential stream.
RECURSIVE RandStream(_, _)
RandStream(seed, k) ==
    IF k = 0 THEN seed + 1
    ELSE (RandStream(seed, k - 1) * 75 + 74) % 65537

\* double_rand for slot i: eight bytes rand() % UCHAR_MAX, read as one word.
RECURSIVE FoldBytes(_, _, _)
FoldBytes(seed, first, j) ==
    IF j = 0 THEN 0
    ELSE (FoldBytes(seed, first, j - 1) * 256
            + (RandStream(seed, first + j) % UCHAR_MAX)) % WordMod

double_rand(seed, i) ==
    FoldBytes(seed, SizeofDouble * i, SizeofDouble)

\* MEMORY_BUFFER, MEMORY_USED, MEMORY_IS_POINTER: the three static arrays.
\* live: the handles the caller holds, each with the slot count it asked for.
\* pc: "run", or "oom" after exit(1). last: the last call and its arguments.
\* prev_USED: MEMORY_USED before the last call. out: what the last call printed.
VARIABLES MEMORY_BUFFER, MEMORY_USED, MEMORY_IS_POINTER, live, pc, last, prev_USED, out

vars == <<MEMORY_BUFFER, MEMORY_USED, MEMORY_IS_POINTER, live, pc, last, prev_USED, out>>

\* An argument or result an operation does not have.
NoArg == 0 - 1

\* A call as `last` records it: its name, its count argument (bytes, slots or
\* seed), the scan offset rand() gave it, its handle (argument or result), the
\* flag indexes it read and wrote, and the name of the call before it when that
\* call had the same handle (or, like this one, none). A my_malloc call also has
\* the offsets of its scan and the slots whose set tag it cleared.
Call(op, n, ss, ptr, reads, writes) ==
    [op |-> op, n |-> n, ss |-> ss, ptr |-> ptr, reads |-> reads, writes |-> writes,
     follows |-> IF last.ptr = ptr THEN last.op ELSE "none",
     offsets |-> <<>>, cleared |-> {}]

\* ------------------------------------------------------------------- init
\* The state after the program's first init_my_malloc(): the static flag
\* arrays are zero-initialised, every used flag is cleared and the buffer is
\* filled with random words.
Init ==
    \E seed \in Seeds :
        /\ MEMORY_BUFFER = [i \in Slots |-> double_rand(seed, i)]
        /\ MEMORY_USED = [i \in Slots |-> FALSE]
        /\ MEMORY_IS_POINTER = [i \in Slots |-> FALSE]
        /\ live = {}
        /\ pc = "run"
        /\ last = [op |-> "init", n |-> seed, ss |-> NoArg, ptr |-> NoArg,
                    reads |-> {}, writes |-> Slots, follows |-> "none",
                    offsets |-> <<>>, cleared |-> {}]
        /\ prev_USED = [i \in Slots |-> FALSE]
        /\ out = <<>>

\* Mutant of init_my_malloc: MEMORY_IS_POINTER is cleared with MEMORY_USED.
init_my_malloc_ClearsTags ==
    /\ pc = "run"
    /\ \E seed \in Seeds :
        /\ MEMORY_BUFFER' = [i \in Slots |-> double_rand(seed, i)]
        /\ last' = Call("init", seed, NoArg, NoArg, {}, Slots)
    /\ MEMORY_USED' = [i \in Slots |-> FALSE]
    /\ MEMORY_IS_POINTER' = [i \in Slots |-> FALSE]
    /\ live' = {}
    /\ prev_USED' = MEMORY_USED
    /\ out' = <<>>
    /\ UNCHANGED pc

\* init_my_malloc() called again: all used flags cleared, the buffer refilled,
\* MEMORY_IS_POINTER not written. The caller's handles are gone with it.
init_my_malloc ==
    /\ pc = "run"
    /\ \E seed \in Seeds :
        /\ MEMORY_BUFFER' = [i \in Slots |-> double_rand(seed, i)]
        /\ last' = Call("init", seed, NoArg, NoArg, {}, Slots)
    /\ MEMORY_USED' = [i \in Slots |-> FALSE]
    /\ UNCHANGED MEMORY_IS_POINTER
    /\ live' = {}
    /\ prev_USED' = MEMORY_USED
    /\ out' = <<>>
    /\ UNCHANGED pc

\* -------------------------------------------------------------- my_malloc
\* Mutant of SlotCount: n / 8 + 1, the rounding term forgotten.
SlotCount_NoRoundUp(bytes) ==
    CDiv(bytes, SizeofDouble) + 1

\* n = (n-1) / 8 + 1: the byte count as a slot count.
SlotCount(bytes) ==
    CDiv(bytes - 1, SizeofDouble) + 1

\* Mutant of WindowLen: the window without its trailing guard slot.
WindowLen_NoTrailingGuard(n) ==
    n + 1

\* The trial window of the placement search: for(long i = 0; i < n+2; i++).
WindowLen(n) ==
    n + 2

\* Mutant of StartAddress: the scan starts one slot after the random offset.
StartAddress_SkipFirst(search_start_address, offset) ==
    (search_start_address + offset + 1) % MAX_MEMORY

\* const long start_address = (search_start_address + offset) % MAX_MEMORY.
StartAddress(search_start_address, offset) ==
    (search_start_address + offset) % MAX_MEMORY

\* Mutant of WindowScan: the test end_address >= MAX_MEMORY left out, a flag
\* beyond the array reading as false.
RECURSIVE WindowScan_NoBoundCheck(_, _, _, _, _)
WindowScan_NoBoundCheck(used, n, start_address, i, acc) ==
    IF ~(i < n + 2) THEN [i |-> i, reads |-> acc]
    ELSE LET end_address == start_address + i IN
         IF end_address \in Slots /\ used[end_address]
         THEN [i |-> i, reads |-> acc \cup {end_address}]
         ELSE WindowScan_NoBoundCheck(used, n, start_address, i + 1,
                                      acc \cup {end_address})

\* Mutant of WindowScan: a trailing guard slot beyond the arena end counts as
\* free.
RECURSIVE WindowScan_GuardMayBeOutside(_, _, _, _, _)
WindowScan_GuardMayBeOutside(used, n, start_address, i, acc) ==
    IF ~(i < n + 2) THEN [i |-> i, reads |-> acc]
    ELSE LET end_address == start_address + i IN
         IF end_address >= MAX_MEMORY
         THEN [i |-> IF i = n + 1 THEN n + 2 ELSE i, reads |-> acc]
         ELSE IF used[end_address] THEN [i |-> i, reads |-> acc \cup {end_address}]
         ELSE WindowScan_GuardMayBeOutside(used, n, start_address, i + 1,
                                           acc \cup {end_address})

\* The inner for loop from index i on: the first i whose end_address is beyond
\* the arena or used, or WindowLen(n) when the loop runs to its end. acc is the
\* set of MEMORY_USED indexes read so far.
RECURSIVE WindowScan(_, _, _, _, _)
WindowScan(used, n, start_address, i, acc) ==
    IF ~(i < WindowLen(n)) THEN [i |-> i, reads |-> acc]
    ELSE LET end_address == start_address + i IN
         IF end_address >= MAX_MEMORY THEN [i |-> i, reads |-> acc]
         ELSE IF used[end_address] THEN [i |-> i, reads |-> acc \cup {end_address}]
         ELSE WindowScan(used, n, start_address, i + 1, acc \cup {end_address})

\* Mutant of ScanLimit: the scan goes round the arena twice.
ScanLimit_Twice ==
    2 * MAX_MEMORY

\* The bound of the while loop: while(offset < MAX_MEMORY).
ScanLimit ==
    MAX_MEMORY

\* The while loop of my_malloc from `offset` on. The result tells whether a
\* free window was found, its start_address, the value of offset at every
\* iteration of the while loop, in order, and the MEMORY_USED indexes read.
RECURSIVE PlacementSearch(_, _, _, _, _, _)
PlacementSearch(used, n, search_start_address, offset, offsets, acc) ==
    IF ~(offset < ScanLimit)
    THEN [found |-> FALSE, start |-> NoArg, offsets |-> offsets, reads |-> acc]
    ELSE LET start_address == StartAddress(search_start_address, offset) IN
         IF used[start_address]
         THEN PlacementSearch(used, n, search_start_address, offset + 1,
                              Append(offsets, offset), acc \cup {start_address})
         ELSE LET w == WindowScan(used, n, start_address, 0, acc \cup {start_address}) IN
              IF w.i = WindowLen(n)
              THEN [found |-> TRUE, start |-> start_address,
                    offsets |-> Append(offsets, offset), reads |-> w.reads]
              ELSE PlacementSearch(used, n, search_start_address, offset + w.i + 1,
                                   Append(offsets, offset), w.reads)

\* Mutant of MarkedSlots: for(int i = 0; i < n; i++), the leading guard marked.
MarkedSlots_FromStart(start_address, n) ==
    { start_address + i : i \in 0 .. (n - 1) }

\* The indexes the marking loop writes: for(int i = 1; i < n+1; i++).
MarkedSlots(start_address, n) ==
    { start_address + i : i \in 1 .. n }

\* Mutant of UsedAfterMalloc: the slots are marked while they are scanned, so
\* a failed search leaves its marks behind.
UsedAfterMalloc_MarksWhileScanning(used, n, r) ==
    IF r.found
    THEN [j \in Slots |-> used[j] \/ j \in { r.start + i : i \in 1 .. n }]
    ELSE [j \in Slots |-> used[j] \/ j \in r.reads]

\* MEMORY_USED after my_malloc: the marking loop runs only when a window was
\* found; the out-of-memory path writes nothing.
UsedAfterMalloc(used, n, r) ==
    IF r.found
    THEN [j \in Slots |-> used[j] \/ j \in MarkedSlots(r.start, n)]
    ELSE used

\* Mutant of IsPointerAfterMalloc: the tags of the marked slots are kept.
IsPointerAfterMalloc_KeepsTags(is_pointer, n, r) ==
    is_pointer

\* MEMORY_IS_POINTER after my_malloc: cleared on the marked slots.
IsPointerAfterMalloc(is_pointer, n, r) ==
    IF r.found
    THEN [j \in Slots |-> is_pointer[j] /\ j \notin MarkedSlots(r.start, n)]
    ELSE is_pointer

\* my_malloc(bytes) with rand() % MAX_MEMORY = search_start_address. Any value
\* of 0 .. MAX_MEMORY-1 may come out of rand(), whatever was drawn before.
my_malloc(bytes, search_start_address) ==
    /\ pc = "run"
    /\ \E n \in {SlotCount(bytes)} :
       \E r \in {PlacementSearch(MEMORY_USED, n, search_start_address, 0, <<>>, {})} :
           /\ MEMORY_USED' = UsedAfterMalloc(MEMORY_USED, n, r)
           /\ MEMORY_IS_POINTER' = IsPointerAfterMalloc(MEMORY_IS_POINTER, n, r)
           /\ IF r.found
              THEN \* return &MEMORY_BUFFER[start_address+1];
                   /\ live' = live \cup {<<r.start + 1, n>>}
                   /\ last' = [Call("malloc", bytes, search_start_address, r.start + 1,
                                    r.reads, MarkedSlots(r.start, n))
                                  EXCEPT !.offsets = r.offsets,
                                         !.cleared = { j \in MarkedSlots(r.start, n) \cap Slots :
                                                         MEMORY_IS_POINTER[j] }]
                   /\ out' = <<>>
                   /\ pc' = "run"
              ELSE \* printf("Out of memory!\n"); exit(1);
                   /\ live' = live
                   /\ last' = [Call("malloc", bytes, search_start_address, NoArg,
                                    r.reads, {})
                                  EXCEPT !.offsets = r.offsets]
                   /\ out' = <<"Out of memory!\n">>
                   /\ pc' = "oom"
    /\ UNCHANGED MEMORY_BUFFER
    /\ prev_USED' = MEMORY_USED

\* ---------------------------------------------------------------- my_free
\* The address at which the walk of my_free stops: one past the freed run.
Max1(freed, address) ==
    address + Cardinality(freed)

\* Mutant of FreedRun: an if in place of the while, one slot cleared.
FreedRun_OneSlot(used, address) ==
    IF address < MAX_MEMORY /\ used[address] THEN {address} ELSE {}

\* Mutant of FreedRun: the walk first looks for the next used slot, then
\* clears the run it finds there.
RECURSIVE FreedRun_SkipsFree(_, _)
FreedRun_SkipsFree(used, address) ==
    IF ~(address < MAX_MEMORY) THEN {}
    ELSE IF ~used[address] THEN FreedRun_SkipsFree(used, address + 1)
    ELSE { j \in Slots : j >= address /\ \A k \in address .. j : used[k] }

\* while( address < MAX_MEMORY && MEMORY_USED[address] ): the addresses whose
\* used flag the loop clears, from `address` on.
RECURSIVE FreedRun(_, _)
FreedRun(used, address) ==
    IF address < MAX_MEMORY /\ used[address]
    THEN {address} \cup FreedRun(used, address + 1)
    ELSE {}

\* Mutant of FreeStart: the walk starts one slot after the handle.
FreeStart_OffByOne(ptr) ==
    ptr + 1

\* The address the walk of my_free starts at: (double*)ptr - &MEMORY_BUFFER[0].
FreeStart(ptr) ==
    ptr

\* The body of my_free(ptr), whatever ptr is: the caller no longer holds ptr.
my_free_body(ptr) ==
    /\ pc = "run"
    /\ live' = { a \in live : a[1] # ptr }
    /\ \E freed \in {FreedRun(MEMORY_USED, FreeStart(ptr))} :
        /\ MEMORY_USED' = [j \in Slots |-> MEMORY_USED[j] /\ j \notin freed]
        /\ last' = Call("free", NoArg, NoArg, ptr,
                        freed \cup ({Max1(freed, ptr)} \cap Slots), freed)
    /\ UNCHANGED <<MEMORY_BUFFER, MEMORY_IS_POINTER, pc>>
    /\ prev_USED' = MEMORY_USED
    /\ out' = <<>>

\* my_free(ptr) for a handle the caller holds.
my_free(ptr) ==
    /\ \E a \in live : a[1] = ptr
    /\ my_free_body(ptr)

\* my_free(ptr) called once more, directly after my_free(ptr): the caller
\* releases a handle it no longer holds.
my_free_again(ptr) ==
    /\ last.op = "free" /\ last.ptr = ptr
    /\ my_free_body(ptr)

\* --------------------------------------------------- set_print_as_pointer
\* Mutant of TaggedSlots: the loop starts on the slot before the handle.
TaggedSlots_FromGuard(offset, n) ==
    { offset - 1 + i : i \in 0 .. (n - 1) }

\* Mutant of TaggedSlots: i <= n, one slot too many.
TaggedSlots_OneMore(offset, n) ==
    { offset + i : i \in 0 .. n }

\* The indexes the loop writes: offset + i for 0 <= i < n.
TaggedSlots(offset, n) ==
    { offset + i : i \in 0 .. (n - 1) }

\* set_print_as_pointer(ptr, n) on a handle the caller holds, with a count that
\* stays inside MEMORY_IS_POINTER (a larger count writes beyond the array).
set_print_as_pointer(ptr, n) ==
    /\ pc = "run"
    /\ \E a \in live : a[1] = ptr
    /\ ptr + n <= MAX_MEMORY
    /\ MEMORY_IS_POINTER' =
          [j \in Slots |-> MEMORY_IS_POINTER[j] \/ j \in TaggedSlots(ptr, n)]
    /\ last' = Call("set_ptr", n, NoArg, ptr, {}, TaggedSlots(ptr, n))
    /\ UNCHANGED <<MEMORY_BUFFER, MEMORY_USED, live, pc>>
    /\ prev_USED' = MEMORY_USED
    /\ out' = <<>>

\* --------------------------------------------------------------- printing
RECURSIVE PadLeft(_, _)
PadLeft(str, width) ==
    IF Len(str) >= width THEN str ELSE PadLeft(" " \o str, width)

\* printf("\n%6d: ", i) of print_memory_used, every cols slots.
RowHeaderUsed(i) ==
    "\n" \o PadLeft(ToString(i), 6) \o ": "

\* printf("\n%6d:", i) of print_memory_value.
RowHeaderValue(i) ==
    "\n" \o PadLeft(ToString(i), 6) \o ":"

\* Mutant of UsedChar: the tag tested before the used flag.
UsedChar_TagFirst(used, is_pointer, i) ==
    IF is_pointer[i] THEN "p"
    ELSE IF used[i] THEN "x" ELSE "."

\* The character print_memory_used writes for slot i.
UsedChar(used, is_pointer, i) ==
    IF used[i]
    THEN IF is_pointer[i] THEN "p" ELSE "x"
    ELSE "."

\* The loop of print_memory_used from slot i on.
RECURSIVE UsedCells(_, _, _)
UsedCells(used, is_pointer, i) ==
    IF ~(i < MAX_MEMORY) THEN <<>>
    ELSE (IF i % cols = 0 THEN <<RowHeaderUsed(i)>> ELSE <<>>)
         \o <<UsedChar(used, is_pointer, i)>>
         \o UsedCells(used, is_pointer, i + 1)

\* What print_memory_used writes, as the sequence of its printf calls.
UsedMap(used, is_pointer) ==
    <<"Current memory usage:">> \o UsedCells(used, is_pointer, 0) \o <<"\n">>

\* *ppMemD - &MEMORY_BUFFER[0]: the word of a slot read as a pointer.
PointerIndex(word) ==
    word - BaseWord

\* "%.2g" of the word read as a number: two significant digits, the exponent
\* form from 100 on, ties to even.
FormatG2(v) ==
    IF v < 100 THEN ToString(v)
    ELSE LET q == v \div 10
             r == v % 10
             m == IF r > 5 \/ (r = 5 /\ q % 2 = 1) THEN q + 1 ELSE q
         IN  IF m = 100 THEN "1e+03"
             ELSE IF m % 10 = 0 THEN ToString(m \div 10) \o "e+02"
             ELSE ToString(m \div 10) \o "." \o ToString(m % 10) \o "e+02"

\* The field print_memory_value writes for slot i.
ValueField(buffer, used, is_pointer, i) ==
    IF used[i]
    THEN IF is_pointer[i]
         THEN " " \o PadLeft(ToString(PointerIndex(buffer[i])), 5)
         ELSE " " \o PadLeft(FormatG2(buffer[i]), 5)
    ELSE "      "

\* The loop of print_memory_value from slot i on.
RECURSIVE ValueCells(_, _, _, _)
ValueCells(buffer, used, is_pointer, i) ==
    IF ~(i < MAX_MEMORY) THEN <<>>
    ELSE (IF i % cols = 0 THEN <<RowHeaderValue(i)>> ELSE <<>>)
         \o <<ValueField(buffer, used, is_pointer, i)>>
         \o ValueCells(buffer, used, is_pointer, i + 1)

ValueMap(buffer, used, is_pointer) ==
    <<"Current memory values:">> \o ValueCells(buffer, used, is_pointer, 0) \o <<"\n">>

\* Mutant of print_memory_used: the tags of the free slots are cleared while
\* the map is printed.
print_memory_used_ClearsStaleTags ==
    /\ pc = "run"
    /\ out' = <<"Current memory usage:">>
                \o [k \in 1 .. MAX_MEMORY |->
                       IF MEMORY_USED[k - 1]
                       THEN IF MEMORY_IS_POINTER[k - 1] THEN "p" ELSE "x"
                       ELSE "."]
                \o <<"\n">>
    /\ MEMORY_IS_POINTER' =
          [j \in Slots |-> MEMORY_IS_POINTER[j] /\ MEMORY_USED[j]]
    /\ last' = [op |-> "print_used", n |-> 0 - 1, ss |-> 0 - 1, ptr |-> 0 - 1,
                reads |-> Slots, writes |-> {},
                follows |-> IF last.ptr = 0 - 1 THEN last.op ELSE "none",
                offsets |-> <<>>, cleared |-> {}]
    /\ prev_USED' = MEMORY_USED
    /\ UNCHANGED <<MEMORY_BUFFER, MEMORY_USED, live, pc>>

print_memory_used ==
    /\ pc = "run"
    /\ out' = UsedMap(MEMORY_USED, MEMORY_IS_POINTER)
    /\ last' = Call("print_used", NoArg, NoArg, NoArg, Slots, {})
    /\ prev_USED' = MEMORY_USED
    /\ UNCHANGED <<MEMORY_BUFFER, MEMORY_USED, MEMORY_IS_POINTER, live, pc>>

print_memory_value ==
    /\ pc = "run"
    /\ out' = ValueMap(MEMORY_BUFFER, MEMORY_USED, MEMORY_IS_POINTER)
    /\ last' = Call("print_value", NoArg, NoArg, NoArg, Slots, {})
    /\ prev_USED' = MEMORY_USED
    /\ UNCHANGED <<MEMORY_BUFFER, MEMORY_USED, MEMORY_IS_POINTER, live, pc>>

Next ==
    \/ init_my_malloc
    \/ \E bytes \in Sizes, ss \in Slots : my_malloc(bytes, ss)
    \/ \E ptr \in Slots : my_free(ptr)
    \/ \E ptr \in Slots, n \in 1 .. MAX_MEMORY : set_print_as_pointer(ptr, n)

    \/ print_memory_used
    \/ print_memory_value

Spec == Init /\ [][Next]_vars

\* ------------------------------------------------- misuse: a double release
\* The program with a caller that may also release a handle a second time.
NextMisuse ==
    \/ Next
    \/ \E ptr \in Slots : my_free_again(ptr)

SpecMisuse == Init /\ [][NextMisuse]_vars

\* ------------------------------------------- my_free on any arena content
\* my_free as a function of the flag arrays: the arrays are drawn from every
\* layout of allocations in the arena, also layouts my_malloc never builds
\* (allocations without a free slot between them, or on the first or the last
\* slot). A layout gives every slot one of "free", "first" (the first slot of
\* an allocation) and "more" (a further slot of it).
Layouts ==
    { shape \in [Slots -> {"free", "first", "more"}] :
        \A j \in Slots :
            shape[j] = "more" => (j > 0 /\ shape[j - 1] # "free") }

RECURSIVE MoreFrom(_, _)
MoreFrom(shape, j) ==
    IF j \in Slots /\ shape[j] = "more" THEN 1 + MoreFrom(shape, j + 1) ELSE 0

\* The allocations of a layout, each <<handle, slot count>>.
Placed(shape) ==
    { <<h, 1 + MoreFrom(shape, h + 1)>> : h \in { j \in Slots : shape[j] = "first" } }

InitPlaced ==
    \E shape \in Layouts, seed \in Seeds :
    \E tagged \in SUBSET Placed(shape) :
        /\ MEMORY_BUFFER = [i \in Slots |-> double_rand(seed, i)]
        /\ MEMORY_USED = [i \in Slots |-> shape[i] # "free"]
        /\ MEMORY_IS_POINTER =
              [i \in Slots |-> \E a \in tagged : a[1] <= i /\ i < a[1] + a[2]]
        /\ live = Placed(shape)
        /\ pc = "run"
        /\ last = [op |-> "none", n |-> NoArg, ss |-> NoArg, ptr |-> NoArg,
                    reads |-> {}, writes |-> {}, follows |-> "none",
                    offsets |-> <<>>, cleared |-> {}]
        /\ prev_USED = MEMORY_USED
        /\ out = <<>>

NextFree ==
    \E ptr \in Slots : my_free(ptr)

SpecFree == InitPlaced /\ [][NextFree]_vars

\* ================================================================= claims
\* ceil(bytes / 8), computed from its definition.
CeilSlots(bytes) ==
    CHOOSE k \in 0 .. bytes : SizeofDouble * k >= bytes /\ SizeofDouble * (k - 1) < bytes

UsedSet(used) ==
    { j \in Slots : used[j] }

\* The slots of a live allocation <<handle, slot count>>.
Run(a) ==
    a[1] .. (a[1] + a[2] - 1)

\* Some window start .. start+n+1 lies inside the arena and is free in `used`.
FitExists(used, n) ==
    \E start \in Slots :
        \A i \in 0 .. (n + 1) : start + i \in Slots /\ ~used[start + i]

\* C1: when my_malloc(s), s > 0, returns a handle h, exactly the n = ceil(s/8)
\* slots h .. h+n-1 are used afterwards, each of them was free before the call,
\* and no other slot's used flag changed.
C1_AllocateMarksRun ==
    (last.op = "malloc" /\ pc = "run" /\ last.n > 0) =>
        LET h == last.ptr
            run == h .. (h + CeilSlots(last.n) - 1)
        IN  /\ run \subseteq Slots
            /\ \A j \in run : ~prev_USED[j] /\ MEMORY_USED[j]
            /\ \A j \in Slots \ run : MEMORY_USED[j] = prev_USED[j]

\* C1 witness: a byte count that is no multiple of 8, placed in an arena that
\* already held an allocation.
C1_Witness ==
    /\ last.op = "malloc" /\ pc = "run" /\ last.n % SizeofDouble # 0
    /\ UsedSet(prev_USED) # {}

\* C2: my_malloc ends out of memory only when no window start .. start+n+1 of
\* free in-bounds slots exists anywhere in the arena.
C2_ExhaustionOnlyWithoutFit ==
    (last.op = "malloc" /\ pc = "oom") => ~FitExists(prev_USED, CeilSlots(last.n))

\* C3: every flag index my_malloc reads during a placement, and every index it
\* marks used, lies in 0 .. MAX_MEMORY-1.
C3_AllocateStaysInBounds ==
    last.op = "malloc" =>
        /\ last.writes \subseteq Slots
        /\ last.reads \subseteq Slots
        /\ UsedSet(MEMORY_USED) \subseteq Slots

\* C3 witness: a successful placement whose window reached the last slot of
\* the arena and whose run ends right before it.
C3_Witness ==
    /\ last.op = "malloc" /\ pc = "run"
    /\ (MAX_MEMORY - 1) \in last.reads
    /\ (MAX_MEMORY - 2) \in last.writes

\* C4: the step into the out-of-memory state changes no used flag, no
\* is_pointer flag and no slot value, and no step follows it.
C4_ExhaustionMutatesNothing ==
    [][ /\ pc = "run"
        /\ pc' = "oom" =>
              /\ last'.op = "malloc"
              /\ MEMORY_USED' = MEMORY_USED
              /\ MEMORY_IS_POINTER' = MEMORY_IS_POINTER
              /\ MEMORY_BUFFER' = MEMORY_BUFFER ]_vars

\* C4 witness: out of memory in an arena that holds a tagged allocation.
C4_Witness ==
    /\ pc = "oom"
    /\ \E j \in Slots : MEMORY_USED[j] /\ MEMORY_IS_POINTER[j]

\* C5: my_free(h) directly after the my_malloc that returned h restores every
\* used flag to its value before that my_malloc.
C5_RoundTrip ==
    [][ (last.op = "malloc" /\ pc = "run" /\ last'.op = "free" /\ last'.ptr = last.ptr)
            => MEMORY_USED' = prev_USED ]_vars

\* C5 witness: a handle released directly after its allocation, next to
\* another live allocation.
C5_Witness ==
    /\ last.op = "free" /\ last.follows = "malloc"
    /\ live # {}

\* C6: the runs of distinct live handles are pairwise disjoint and the used
\* slots are exactly their union, after every allocation and every release.
C6_NoAliasing ==
    /\ \A a, b \in live : a # b => Run(a) \cap Run(b) = {}
    /\ UsedSet(MEMORY_USED) = UNION { Run(a) : a \in live }

\* C6 witness: a release that left another allocation live.
C6_Witness ==
    /\ last.op = "free"
    /\ live # {}
    /\ UsedSet(prev_USED) # UsedSet(MEMORY_USED)

\* C7: when the window ss .. ss+n+1 at the scan offset ss is in bounds and
\* free, my_malloc returns the handle ss+1 and marks exactly ss+1 .. ss+n.
C7_PlacedAtFreeOffset ==
    (last.op = "malloc" /\ last.ss + CeilSlots(last.n) + 1 < MAX_MEMORY
        /\ \A i \in 0 .. (CeilSlots(last.n) + 1) : ~prev_USED[last.ss + i]) =>
            /\ pc = "run"
            /\ last.ptr = last.ss + 1
            /\ last.writes = (last.ss + 1) .. (last.ss + CeilSlots(last.n))
            /\ UsedSet(MEMORY_USED) = UsedSet(prev_USED) \cup last.writes

\* C7 witness: one slot at scan offset 2, placed on slot 3 while slot 1 is used.
C7_Witness ==
    /\ last.op = "malloc" /\ last.ss = 2 /\ last.ptr = 3
    /\ prev_USED[1]

\* C8: a printing call changes no used flag, no is_pointer flag and no slot
\* value, and the same printing call made twice in a row prints the same text.
C8_PrintingReadOnly ==
    [][ last'.op \in {"print_used", "print_value"} =>
            /\ MEMORY_USED' = MEMORY_USED
            /\ MEMORY_IS_POINTER' = MEMORY_IS_POINTER
            /\ MEMORY_BUFFER' = MEMORY_BUFFER
            /\ (last.op = last'.op => out' = out) ]_vars

\* C8 witness: print_memory_value called twice in a row with a tagged and an
\* untagged used slot to show.
C8_Witness ==
    /\ last.op = "print_value" /\ last.follows = "print_value"
    /\ \E j \in Slots : MEMORY_USED[j] /\ MEMORY_IS_POINTER[j]
    /\ \E j \in Slots : MEMORY_USED[j] /\ ~MEMORY_IS_POINTER[j]

\* The per-slot characters of a usage map, its other output removed.
IsUsageChar(token) ==
    token \in {".", "p", "x"}

\* C9: the usage map holds one character per slot, in index order: '.' for a
\* free slot whatever its is_pointer flag, 'p' for a used tagged slot, 'x' for
\* a used untagged slot.
C9_UsageMapCharacters ==
    last.op = "print_used" =>
        LET chars == SelectSeq(out, IsUsageChar) IN
        /\ Len(chars) = MAX_MEMORY
        /\ \A i \in Slots :
              chars[i + 1] = IF ~MEMORY_USED[i] THEN "."
                             ELSE IF MEMORY_IS_POINTER[i] THEN "p" ELSE "x"

\* C9 witness: a usage map showing a free slot with a stale tag, a used tagged
\* slot and a used untagged slot.
C9_Witness ==
    /\ last.op = "print_used"
    /\ \E j \in Slots : ~MEMORY_USED[j] /\ MEMORY_IS_POINTER[j]
    /\ \E j \in Slots : MEMORY_USED[j] /\ MEMORY_IS_POINTER[j]
    /\ \E j \in Slots : MEMORY_USED[j] /\ ~MEMORY_IS_POINTER[j]

\* C10: set_print_as_pointer(h, count) sets is_pointer on exactly the slots
\* h .. h+count-1 and changes no other is_pointer flag, no used flag and no
\* slot value.
C10_TagFrame ==
    [][ last'.op = "set_ptr" =>
            /\ \A j \in Slots :
                  MEMORY_IS_POINTER'[j] =
                      (MEMORY_IS_POINTER[j]
                          \/ (last'.ptr <= j /\ j <= last'.ptr + last'.n - 1))
            /\ MEMORY_USED' = MEMORY_USED
            /\ MEMORY_BUFFER' = MEMORY_BUFFER ]_vars

\* C10 witness: two slots tagged, one slot after them left untagged.
C10_Witness ==
    /\ last.op = "set_ptr" /\ last.n = 2
    /\ \E j \in Slots : j > last.ptr + 1 /\ ~MEMORY_IS_POINTER[j]

\* C11: init_my_malloc, from any state, leaves every used flag false and
\* writes no is_pointer flag.
C11_ReinitClearsUsedOnly ==
    [][ last'.op = "init" =>
            /\ \A j \in Slots : ~MEMORY_USED'[j]
            /\ MEMORY_IS_POINTER' = MEMORY_IS_POINTER ]_vars

\* C11 witness: init_my_malloc called on an arena with a tagged allocation,
\* whose tag is still set afterwards.
C11_Witness ==
    /\ last.op = "init"
    /\ \E j \in Slots : prev_USED[j] /\ MEMORY_IS_POINTER[j]

\* A position fits: slot start is free and the slots start+1 .. start+n and the
\* trailing guard start+n+1 are in bounds and free.
Fits(used, n, start) ==
    \A i \in 0 .. (n + 1) : start + i \in Slots /\ ~used[start + i]

\* The first fitting position among ss, ss+1, ... taken modulo MAX_MEMORY, or
\* NoArg when there is none.
FirstFit(used, n, ss) ==
    LET ks == { k \in Slots : Fits(used, n, (ss + k) % MAX_MEMORY) } IN
    IF ks = {} THEN NoArg
    ELSE (ss + (CHOOSE k \in ks : \A m \in ks : k <= m)) % MAX_MEMORY

\* C12: the start my_malloc chooses is the first fitting position in circular
\* scan order from the random offset; the jump past an obstruction skips none.
C12_FirstFitInScanOrder ==
    (last.op = "malloc" /\ pc = "run") =>
        last.ptr = FirstFit(prev_USED, CeilSlots(last.n), last.ss) + 1

\* C13 as claimed: the position at the scan offset is accepted when slot start
\* is free, start+1 .. start+n are in bounds and free, and start+n+1 is free or
\* beyond the arena end.
C13_GuardFreeOrOutside ==
    (last.op = "malloc"
        /\ \A i \in 0 .. CeilSlots(last.n) :
              last.ss + i \in Slots /\ ~prev_USED[last.ss + i]
        /\ (last.ss + CeilSlots(last.n) + 1 \in Slots
               => ~prev_USED[last.ss + CeilSlots(last.n) + 1])) =>
            (pc = "run" /\ last.ptr = last.ss + 1)

\* C13 amended: my_malloc accepts a position only when the whole window
\* start .. start+n+1, trailing guard included, is in bounds and free, so no
\* allocation ends on the last slot.
C13_GuardFreeAndInside ==
    (last.op = "malloc" /\ pc = "run") =>
        /\ Fits(prev_USED, CeilSlots(last.n), last.ptr - 1)
        /\ (MAX_MEMORY - 1) \notin last.writes

\* C13 witness: an allocation whose trailing guard is the last slot of the
\* arena, placed next to an earlier allocation.
C13_Witness ==
    /\ last.op = "malloc" /\ pc = "run"
    /\ last.ptr + CeilSlots(last.n) = MAX_MEMORY - 1
    /\ UsedSet(prev_USED) # {}

\* The used slots from h on up to the first free slot or the arena end.
MaximalRun(used, h) ==
    { j \in Slots : j >= h /\ \A k \in h .. j : used[k] }

\* C14: my_free(h) clears the used flag of exactly the maximal run of used
\* slots that starts at h, a neighbour allocation that abuts it included, and
\* changes no other used flag, no is_pointer flag and no slot value.
C14_ReleaseClearsMaximalRun ==
    [][ last'.op = "free" =>
            /\ UsedSet(MEMORY_USED') =
                  UsedSet(MEMORY_USED) \ MaximalRun(MEMORY_USED, last'.ptr)
            /\ MEMORY_IS_POINTER' = MEMORY_IS_POINTER
            /\ MEMORY_BUFFER' = MEMORY_BUFFER ]_vars

\* C14 witness: a release that ran through a tagged neighbour allocation,
\* which the caller still holds, up to the arena end.
C14_Witness ==
    /\ last.op = "free"
    /\ (MAX_MEMORY - 1) \in last.writes
    /\ \E a \in live :
          /\ a[1] > last.ptr
          /\ Run(a) \subseteq last.writes
          /\ \A j \in Run(a) : MEMORY_IS_POINTER[j]
    /\ \E j \in Slots : j < last.ptr /\ MEMORY_USED[j]

\* C20: my_free(h) called again directly after my_free(h) changes no used
\* flag, no is_pointer flag and no slot value.
C20_ReleaseIdempotent ==
    [][ (last.op = "free" /\ last'.op = "free" /\ last'.ptr = last.ptr) =>
            /\ MEMORY_USED' = MEMORY_USED
            /\ MEMORY_IS_POINTER' = MEMORY_IS_POINTER
            /\ MEMORY_BUFFER' = MEMORY_BUFFER ]_vars

\* C20 witness: a second release of the same handle while another allocation
\* is live.
C20_Witness ==
    /\ last.op = "free" /\ last.follows = "free"
    /\ live # {}
    /\ ~MEMORY_USED[last.ptr]

\* C15: every my_malloc call ends, with a handle or out of memory, after at
\* most MAX_MEMORY iterations of its while loop, and offset is strictly larger
\* at every iteration than at the one before.
C15_ScanTerminates ==
    last.op = "malloc" =>
        /\ pc \in {"run", "oom"}
        /\ (pc = "run") = (last.ptr # NoArg)
        /\ Len(last.offsets) >= 1
        /\ Len(last.offsets) <= MAX_MEMORY
        /\ last.offsets[1] = 0
        /\ \A k \in 1 .. (Len(last.offsets) - 1) :
              last.offsets[k] < last.offsets[k + 1]
        /\ \A k \in 1 .. Len(last.offsets) : last.offsets[k] < MAX_MEMORY

\* C15 witness: a scan of several iterations that took a jump of more than
\* one slot and a step of one slot, and ended out of memory.
C15_Witness ==
    /\ last.op = "malloc" /\ pc = "oom"
    /\ \E k \in 1 .. (Len(last.offsets) - 1) : last.offsets[k + 1] > last.offsets[k] + 1
    /\ \E k \in 1 .. (Len(last.offsets) - 1) : last.offsets[k + 1] = last.offsets[k] + 1

\* C16: a successful my_malloc leaves every slot it marks untagged, and a tag
\* is only ever set by a set_print_as_pointer call that covers the slot; so a
\* used slot is tagged only by a set_print_as_pointer made after the my_malloc
\* that last marked it.
C16_AllocateClearsTags ==
    [][ /\ (last'.op = "malloc" /\ pc' = "run") =>
              \A j \in last'.writes : ~MEMORY_IS_POINTER'[j]
        /\ \A j \in Slots :
              (~MEMORY_IS_POINTER[j] /\ MEMORY_IS_POINTER'[j]) =>
                  (last'.op = "set_ptr" /\ j \in last'.writes) ]_vars

\* C16 witness: an allocation on a slot that still carried the tag of an
\* earlier, released allocation.
C16_Witness ==
    /\ last.op = "malloc" /\ pc = "run"
    /\ last.cleared # {}
    /\ \A j \in last.writes : MEMORY_USED[j] /\ ~MEMORY_IS_POINTER[j]

\* C17: a slot's is_pointer flag turns from false to true only in a
\* set_print_as_pointer call, and when that call's count does not exceed the
\* slot count of its live handle, only on a slot whose used flag is true.
C17_TagOnlyWhileUsed ==
    [][ \A j \in Slots :
          (~MEMORY_IS_POINTER[j] /\ MEMORY_IS_POINTER'[j]) =>
              /\ last'.op = "set_ptr"
              /\ (\E a \in live : a[1] = last'.ptr /\ last'.n <= a[2])
                    => (MEMORY_USED[j] /\ MEMORY_USED'[j]) ]_vars

\* C17 witness: a release that left the tag of a slot it freed in place.
C17_Witness ==
    /\ last.op = "free"
    /\ \E j \in last.writes : ~MEMORY_USED[j] /\ MEMORY_IS_POINTER[j]
    /\ \A j \in Slots : MEMORY_IS_POINTER[j] => j \in last.writes

\* C18: every live allocation has a free in-bounds slot right before its first
\* slot and right after its last slot, so no two live allocations are adjacent
\* and a release never reaches into another live allocation.
C18_GuardSlots ==
    /\ \A a \in live :
          /\ a[1] - 1 \in Slots /\ ~MEMORY_USED[a[1] - 1]
          /\ a[1] + a[2] \in Slots /\ ~MEMORY_USED[a[1] + a[2]]
          /\ \A j \in Run(a) : MEMORY_USED[j]
    /\ last.op = "free" => \A a \in live : Run(a) \cap last.writes = {}

\* C18 witness: two live allocations with one free slot between them, the
\* second placed after the first.
C18_Witness ==
    /\ last.op = "malloc" /\ pc = "run"
    /\ \E a, b \in live : a[1] + a[2] + 1 = b[1]

\* C19: slot 0 and slot MAX_MEMORY-1 are never used, and no request of more
\* than MAX_MEMORY-2 slots succeeds.
C19_EndSlotsNeverUsed ==
    /\ ~MEMORY_USED[0]
    /\ ~MEMORY_USED[MAX_MEMORY - 1]
    /\ (last.op = "malloc" /\ pc = "run") => CeilSlots(last.n) <= MAX_MEMORY - 2

\* C19 witness: a request of MAX_MEMORY-2 slots that succeeded.
C19_Witness ==
    /\ last.op = "malloc" /\ pc = "run"
    /\ CeilSlots(last.n) = MAX_MEMORY - 2
    /\ UsedSet(MEMORY_USED) = 1 .. (MAX_MEMORY - 2)
====
